---- MODULE Spec2Model ----
(***************************************************************************)
(* IntelliCrawl (afarghanie/crawler-best): the crawler engine of           *)
(* src/d_crawler.py, the LLM helpers of src/brain.py and the main flow of  *)
(* src/app.py.                                                             *)
(*                                                                         *)
(* Texts (LLM replies, returned strings) are sequences of lexical tokens;  *)
(* json.loads is a recursive-descent parser over them and json.dumps a     *)
(* serialiser, so that "this string parses to an object with a data list"  *)
(* is decided by parsing.  URLs are sequences of URL atoms.                *)
(***************************************************************************)
EXTENDS Integers, Sequences, FiniteSets, TLC

(***************************************************************************)
(* Python / JSON values.  Every value carries every field, so that any two *)
(* values can be compared: t is the type, s a str's text, n a number's     *)
(* (or bool's) value, a a list's elements, o a dict's (key, value) pairs   *)
(* in insertion order.                                                     *)
(***************************************************************************)
JNull == [t |-> "null", s |-> "", n |-> 0, a |-> <<>>, o |-> <<>>]

JBool(b) == [t |-> "bool", s |-> "", n |-> IF b THEN 1 ELSE 0, a |-> <<>>, o |-> <<>>]

JNum(x) == [t |-> "num", s |-> "", n |-> x, a |-> <<>>, o |-> <<>>]

JStr(x) == [t |-> "str", s |-> x, n |-> 0, a |-> <<>>, o |-> <<>>]

JList(xs) == [t |-> "list", s |-> "", n |-> 0, a |-> xs, o |-> <<>>]

JDict(kvs) == [t |-> "dict", s |-> "", n |-> 0, a |-> <<>>, o |-> kvs]

KV(key, val) == [k |-> key, v |-> val]

\* key in d
HasKey(d, key) == \E i \in 1..Len(d.o) : d.o[i].k = key

\* d[key], for a key of d
Lookup(d, key) == d.o[CHOOSE i \in 1..Len(d.o) : d.o[i].k = key].v

\* dict.get(key, default)
DictGet(d, key, default) == IF HasKey(d, key) THEN Lookup(d, key) ELSE default

\* d[key] = val: an existing key keeps its place, a new key goes last
DictSet(d, key, val) ==
    IF HasKey(d, key)
    THEN JDict([i \in 1..Len(d.o) |-> IF d.o[i].k = key THEN KV(key, val) ELSE d.o[i]])
    ELSE JDict(Append(d.o, KV(key, val)))

(***************************************************************************)
(* Lexical tokens of a text: k is the token kind ("{", "}", "[", "]",      *)
(* ":", ",", "null", "true", "false", "str", "num"; "text" for prose that  *)
(* is no JSON token; "fence" for a markdown code fence).                   *)
(***************************************************************************)
Tk(kind) == [k |-> kind, s |-> "", n |-> 0]

TStr(x) == [k |-> "str", s |-> x, n |-> 0]

TNum(x) == [k |-> "num", s |-> "", n |-> x]

TText(x) == [k |-> "text", s |-> x, n |-> 0]

\* The outcome of a parse step: ok, the value read, the tokens left.
ParseFail == [ok |-> FALSE, v |-> JNull, rest |-> <<>>]

ParseOk(val, rest) == [ok |-> TRUE, v |-> val, rest |-> rest]

RECURSIVE ParseValue(_)
RECURSIVE ParseElems(_, _)
RECURSIVE ParseMembers(_, _)

\* the elements of an array after "[" or ",": value ("," value)* "]"
ParseElems(toks, acc) ==
    LET r == ParseValue(toks)
    IN  IF ~r.ok \/ r.rest = <<>> THEN ParseFail
        ELSE IF Head(r.rest).k = "," THEN ParseElems(Tail(r.rest), Append(acc, r.v))
        ELSE IF Head(r.rest).k = "]" THEN ParseOk(JList(Append(acc, r.v)), Tail(r.rest))
        ELSE ParseFail

\* the members of an object after "{" or ",": str ":" value ("," ...)* "}";
\* a repeated key keeps its last value
ParseMembers(toks, acc) ==
    IF Len(toks) < 2 \/ toks[1].k # "str" \/ toks[2].k # ":" THEN ParseFail
    ELSE LET r == ParseValue(SubSeq(toks, 3, Len(toks)))
         IN  IF ~r.ok \/ r.rest = <<>> THEN ParseFail
             ELSE IF Head(r.rest).k = ","
                  THEN ParseMembers(Tail(r.rest), DictSet(acc, toks[1].s, r.v))
             ELSE IF Head(r.rest).k = "}"
                  THEN ParseOk(DictSet(acc, toks[1].s, r.v), Tail(r.rest))
             ELSE ParseFail

\* one JSON value at the head of toks
ParseValue(toks) ==
    IF toks = <<>> THEN ParseFail
    ELSE LET h == Head(toks)
             rest == Tail(toks)
         IN  CASE h.k = "null" -> ParseOk(JNull, rest)
               [] h.k = "true" -> ParseOk(JBool(TRUE), rest)
               [] h.k = "false" -> ParseOk(JBool(FALSE), rest)
               [] h.k = "num" -> ParseOk(JNum(h.n), rest)
               [] h.k = "str" -> ParseOk(JStr(h.s), rest)
               [] h.k = "[" ->
                    IF rest # <<>> /\ Head(rest).k = "]"
                    THEN ParseOk(JList(<<>>), Tail(rest))
                    ELSE ParseElems(rest, <<>>)
               [] h.k = "{" ->
                    IF rest # <<>> /\ Head(rest).k = "}"
                    THEN ParseOk(JDict(<<>>), Tail(rest))
                    ELSE ParseMembers(rest, JDict(<<>>))
               [] OTHER -> ParseFail

\* json.loads(text): ok is FALSE where json.loads raises JSONDecodeError
JsonLoads(text) ==
    LET r == ParseValue(text)
    IN  IF r.ok /\ r.rest = <<>> THEN r ELSE ParseFail

RECURSIVE JsonDumps(_)
RECURSIVE DumpElems(_)
RECURSIVE DumpMembers(_)

DumpElems(xs) ==
    IF xs = <<>> THEN <<>>
    ELSE IF Len(xs) = 1 THEN JsonDumps(xs[1])
    ELSE JsonDumps(xs[1]) \o <<Tk(",")>> \o DumpElems(Tail(xs))

DumpMembers(kvs) ==
    IF kvs = <<>> THEN <<>>
    ELSE LET m == <<TStr(kvs[1].k), Tk(":")>> \o JsonDumps(kvs[1].v)
         IN  IF Len(kvs) = 1 THEN m ELSE m \o <<Tk(",")>> \o DumpMembers(Tail(kvs))

\* json.dumps(value), as tokens (indentation is not part of the token text)
JsonDumps(val) ==
    CASE val.t = "null" -> <<Tk("null")>>
      [] val.t = "bool" -> <<Tk(IF val.n = 1 THEN "true" ELSE "false")>>
      [] val.t = "num" -> <<TNum(val.n)>>
      [] val.t = "str" -> <<TStr(val.s)>>
      [] val.t = "list" -> <<Tk("[")>> \o DumpElems(val.a) \o <<Tk("]")>>
      [] val.t = "dict" -> <<Tk("{")>> \o DumpMembers(val.o) \o <<Tk("}")>>

(***************************************************************************)
(* URLs and link texts: sequences of atoms ("http:", "//", "/", a host, a  *)
(* path segment, "..", " " for white space, "None").                       *)
(***************************************************************************)
SchemeAtoms == {"http:"}

\* str.strip(): leading and trailing white space removed
RECURSIVE LStrip(_)
LStrip(s) == IF s # <<>> /\ Head(s) = " " THEN LStrip(Tail(s)) ELSE s

RECURSIVE RStrip(_)
RStrip(s) == IF s # <<>> /\ s[Len(s)] = " " THEN RStrip(SubSeq(s, 1, Len(s) - 1)) ELSE s

Strip(s) == RStrip(LStrip(s))

\* "None" in s
ContainsNone(s) == \E i \in 1..Len(s) : s[i] = "None"

\* s.startswith("/"): the atom "//" starts with "/" too
StartsWithSlash(s) == s # <<>> /\ Head(s) \in {"/", "//"}

\* urlparse(url).scheme, with its colon; "" when the URL has none
UrlScheme(url) ==
    IF Len(url) >= 2 /\ url[1] \in SchemeAtoms /\ url[2] = "//" THEN url[1] ELSE ""

\* the atoms of s before its first "/"
RECURSIVE UpToSlash(_)
UpToSlash(s) ==
    IF s = <<>> \/ Head(s) = "/" THEN <<>> ELSE <<Head(s)>> \o UpToSlash(Tail(s))

\* urlparse(url).netloc of a URL that has a scheme
UrlNetloc(url) == UpToSlash(SubSeq(url, 3, Len(url)))

\* the path without its last segment
DropLastSeg(path) == IF Len(path) >= 2 THEN SubSeq(path, 1, Len(path) - 2) ELSE <<>>

\* urllib's removal of "." and ".." segments from a path "/" seg "/" seg ...
RECURSIVE RemoveDots(_, _)
RemoveDots(in, out) ==
    IF in = <<>> THEN (IF out = <<>> THEN <<"/">> ELSE out)
    ELSE IF Len(in) >= 2 /\ in[1] = "/" /\ in[2] = ".."
         THEN RemoveDots(SubSeq(in, 3, Len(in)), DropLastSeg(out))
    ELSE IF Len(in) >= 2 /\ in[1] = "/" /\ in[2] = "."
         THEN RemoveDots(SubSeq(in, 3, Len(in)), out)
    ELSE RemoveDots(Tail(in), Append(out, Head(in)))

\* urljoin(f"{scheme}://{netloc}", link) for a link that starts with "/":
\* a "//host/..." link keeps only the scheme of the current URL; a base
\* without a scheme ("://...") contributes nothing
UrlJoinBase(current_url, link) ==
    LET scheme == UrlScheme(current_url)
    IN  IF Head(link) = "//"
        THEN (IF scheme = "" THEN link ELSE <<scheme>> \o link)
        ELSE IF scheme = "" THEN RemoveDots(link, <<>>)
        ELSE <<scheme, "//">> \o UrlNetloc(current_url) \o RemoveDots(link, <<>>)

(***************************************************************************)
(* brain.py: IntentAnalyzer, SchemaGenerator, ConfigExtractor.  Each makes *)
(* one LLM call inside a try block whose except returns a default.         *)
(***************************************************************************)
\* StrategyType
SUMMARY == JStr("summary")

EXTRACTION == JStr("extraction")

\* an analyze whose except branch gives no strategy
AnalyzeNoDefault(outcome) ==
    IF ~outcome.ok THEN JNull
    ELSE LET p == JsonLoads(outcome.text)
         IN  IF ~p.ok \/ p.v.t # "dict" THEN JNull
             ELSE DictGet(p.v, "strategy", SUMMARY)

\* IntentAnalyzer.analyze (47-62): result.get("strategy", SUMMARY); the
\* call raising, json.loads raising and a result without .get are caught
Analyze(outcome) ==
    IF ~outcome.ok THEN SUMMARY
    ELSE LET p == JsonLoads(outcome.text)
         IN  IF ~p.ok \/ p.v.t # "dict" THEN SUMMARY
             ELSE DictGet(p.v, "strategy", SUMMARY)

\* the last index of a token of kind k in toks, 0 when there is none
LastIndex(toks, kind) ==
    LET at == {i \in 1..Len(toks) : toks[i].k = kind}
    IN  IF at = {} THEN 0 ELSE CHOOSE i \in at : \A j \in at : j <= i

\* whether \{.*\} or \[.*\] (DOTALL, greedy) matches at position i
MatchesAt(toks, i) ==
    \/ toks[i].k = "{" /\ LastIndex(toks, "}") > i
    \/ toks[i].k = "[" /\ LastIndex(toks, "]") > i

\* re.search(r"\{.*\}|\[.*\]", content, re.DOTALL): the leftmost match,
\* which runs to the last closing token of its kind; <<>> for no match
RegexSearch(toks) ==
    LET at == {i \in 1..Len(toks) : MatchesAt(toks, i)}
    IN  IF at = {} THEN <<>>
        ELSE LET i == CHOOSE x \in at : \A y \in at : x <= y
             IN  SubSeq(toks, i, LastIndex(toks, IF toks[i].k = "{" THEN "}" ELSE "]"))

\* content.replace("```json", "").replace("```", "").strip()
RECURSIVE DropFences(_)
DropFences(toks) ==
    IF toks = <<>> THEN <<>>
    ELSE IF Head(toks).k = "fence" THEN DropFences(Tail(toks))
    ELSE <<Head(toks)>> \o DropFences(Tail(toks))

\* a field of a generated model: its name and its Python type
Field(name, type) == [name |-> name, type |-> type]

\* SchemaGenerator.generate_schema (126-134): the type of one field
FieldType(type_str) ==
    IF type_str = JStr("number") THEN "float"
    ELSE IF type_str = JStr("boolean") THEN "bool"
    ELSE IF type_str = JStr("array") THEN "List[str]"
    ELSE "str"

\* create_model('FallbackSchema', content=(str, ...))
FallbackSchema == [name |-> "FallbackSchema", fields |-> <<Field("content", "str")>>]

\* SchemaGenerator.generate_schema (111-119): the text given to json.loads
SchemaContent(text) ==
    LET match == RegexSearch(text)
    IN  IF match # <<>> THEN match ELSE DropFences(text)

\* SchemaGenerator.generate_schema (102-141); schema_json.items() raises
\* for a value that is no dict
GenerateSchema(outcome) ==
    IF ~outcome.ok THEN FallbackSchema
    ELSE LET p == JsonLoads(SchemaContent(outcome.text))
         IN  IF ~p.ok \/ p.v.t # "dict" THEN FallbackSchema
             ELSE [name |-> "DynamicSchema",
                   fields |-> [i \in 1..Len(p.v.o) |->
                                  Field(p.v.o[i].k, FieldType(p.v.o[i].v))]]

\* the config of the except branch (205)
DefaultConfig ==
    JDict(<<KV("strategy", JStr("simple")), KV("target_count", JNum(0)),
            KV("max_pages", JNum(1))>>)

CrawlingStrategies == {JStr("simple"), JStr("deep"), JStr("adaptive")}

\* an extract_config without the sanity check
NoSanityCheck(config) == config

\* the sanity check (197-198): config.get("strategy") is None for a missing key
SanityCheck(config) ==
    IF DictGet(config, "strategy", JNull) \notin CrawlingStrategies
    THEN DictSet(config, "strategy", JStr("simple"))
    ELSE config

\* ConfigExtractor.extract_config (185-205)
ExtractConfig(outcome) ==
    IF ~outcome.ok THEN DefaultConfig
    ELSE LET p == JsonLoads(outcome.text)
         IN  IF ~p.ok \/ p.v.t # "dict" THEN DefaultConfig
             ELSE SanityCheck(p.v)

(***************************************************************************)
(* The environment: what one LLM call and one page fetch can answer.       *)
(***************************************************************************)
\* An LLM call raises (network, provider error) or replies with a text.
LLMRaised == [ok |-> FALSE, text |-> <<>>]

LLMReply(text) == [ok |-> TRUE, text |-> text]

ItemA == JDict(<<KV("t", JNum(1))>>)

ItemB == JDict(<<KV("t", JNum(2))>>)

\* the text {"data": items}
DataText(items) == JsonDumps(JDict(<<KV("data", items)>>))

\* Replies of the extraction LLM call: well-formed ones with 0, 1 and 2
\* items, and the shapes a model can return instead.
ExtractReplies ==
    { DataText(JList(<<>>)),
      DataText(JList(<<ItemA>>)),
      DataText(JList(<<ItemA, ItemB>>)),
      DataText(JStr("ab")),
      DataText(JNull),
      DataText(JDict(<<KV("k", ItemA)>>)),
      JsonDumps(JDict(<<>>)),
      JsonDumps(JDict(<<KV("items", JList(<<ItemA>>))>>)),
      JsonDumps(JList(<<ItemA>>)),
      <<TText("Sorry")>> }

ExtractOutcomes == {LLMRaised} \cup {LLMReply(t) : t \in ExtractReplies}

UrlP1 == <<"http:", "//", "h", "/", "p1">>

UrlP2 == <<"http:", "//", "h", "/", "p2">>

UrlP3 == <<"http:", "//", "h", "/", "p3">>

\* Replies of the next-page LLM call: "None", "", absolute URLs, a URL
\* wrapped in white space, paths, a "//host/path" link, a relative link and
\* a URL with a path segment None.
NextReplies ==
    { <<"None">>,
      <<>>,
      UrlP1,
      <<" ", "http:", "//", "h", "/", "p2", " ">>,
      <<"/", "p3">>,
      <<"/", "p1", "/", "..", "/", "p2">>,
      <<"//", "g", "/", "p4">>,
      <<"p5">>,
      <<"http:", "//", "h", "/", "None", "/", "p2">> }

NextOutcomes == {LLMRaised} \cup {LLMReply(t) : t \in NextReplies}

\* the text {"strategy": value}
StrategyText(value) == JsonDumps(JDict(<<KV("strategy", value)>>))

\* Replies of the intent LLM call.
IntentReplies ==
    { StrategyText(SUMMARY),
      StrategyText(EXTRACTION),
      StrategyText(JStr("scrape")),
      StrategyText(JNull),
      JsonDumps(JDict(<<KV("intent", EXTRACTION)>>)),
      JsonDumps(JList(<<EXTRACTION>>)),
      <<TText("extraction")>>,
      <<Tk("{"), TStr("strategy"), Tk(":")>> }

IntentOutcomes == {LLMRaised} \cup {LLMReply(t) : t \in IntentReplies}

\* the text {"title": "string", "price": "number"}
TwoFieldSchemaText ==
    JsonDumps(JDict(<<KV("title", JStr("string")), KV("price", JStr("number"))>>))

\* Replies of the schema LLM call: a schema, one in a markdown fence, one
\* inside prose, one with every type, a nested one, the fallback's own
\* field, two objects in one reply, a list, a fenced number, prose, a
\* truncated object.
SchemaReplies ==
    { TwoFieldSchemaText,
      <<Tk("fence")>> \o TwoFieldSchemaText \o <<Tk("fence")>>,
      <<TText("Here is the schema")>> \o TwoFieldSchemaText \o <<TText("Done")>>,
      JsonDumps(JDict(<<KV("tags", JStr("array")), KV("ok", JStr("boolean")),
                        KV("name", JStr("text"))>>)),
      JsonDumps(JDict(<<KV("quote", JDict(<<KV("text", JStr("string"))>>))>>)),
      JsonDumps(JDict(<<KV("content", JStr("string"))>>)),
      JsonDumps(JDict(<<>>)),
      TwoFieldSchemaText \o <<TText("and")>> \o TwoFieldSchemaText,
      JsonDumps(JList(<<JStr("title")>>)),
      <<Tk("fence"), TNum(5), Tk("fence")>>,
      <<TText("title and price")>>,
      <<Tk("{"), TStr("title"), Tk(":")>> }

SchemaOutcomes == {LLMRaised} \cup {LLMReply(t) : t \in SchemaReplies}

\* the text {"strategy": s, "target_count": t, "max_pages": m}
ConfigText(strat, target, max) ==
    JsonDumps(JDict(<<KV("strategy", strat), KV("target_count", target),
                      KV("max_pages", max)>>))

\* Replies of the config LLM call in the app: the three strategies, counts
\* left out, counts that are no numbers.
AppConfigReplies ==
    { ConfigText(JStr("simple"), JNum(0), JNum(1)),
      ConfigText(JStr("deep"), JNum(0), JNum(2)),
      ConfigText(JStr("adaptive"), JNum(2), JNum(2)),
      StrategyText(JStr("adaptive")),
      ConfigText(JStr("adaptive"), JStr("2"), JNum(2)),
      ConfigText(JStr("adaptive"), JNum(2), JNull) }

AppConfigOutcomes == {LLMRaised} \cup {LLMReply(t) : t \in AppConfigReplies}

\* Replies of the config LLM call: those of the app, a strategy outside
\* the three, one in another case, one that is no str, none at all, a
\* list, prose, a truncated object.
ConfigReplies ==
    AppConfigReplies \cup
    { ConfigText(JStr("explore"), JNum(0), JNum(1)),
      ConfigText(JStr("Deep"), JNum(0), JNum(2)),
      ConfigText(JNull, JNum(2), JNum(2)),
      ConfigText(JList(<<JStr("deep")>>), JNum(0), JNum(2)),
      JsonDumps(JDict(<<KV("target_count", JNum(2)), KV("max_pages", JNum(2))>>)),
      JsonDumps(JDict(<<>>)),
      JsonDumps(JList(<<JStr("adaptive")>>)),
      <<TText("adaptive")>>,
      <<Tk("{"), TStr("strategy"), Tk(":"), TStr("deep")>> }

ConfigOutcomes == {LLMRaised} \cup {LLMReply(t) : t \in ConfigReplies}

\* Outcomes of the intent and the schema LLM call in the app.
AppIntentOutcomes ==
    {LLMRaised} \cup
    {LLMReply(t) : t \in {StrategyText(SUMMARY), StrategyText(EXTRACTION),
                          StrategyText(JStr("scrape"))}}

AppSchemaOutcomes == {LLMRaised, LLMReply(TwoFieldSchemaText)}

(***************************************************************************)
(* d_crawler.py: the helpers of CrawlerEngine.                             *)
(***************************************************************************)
\* a fallback that reports the failure as an item
ErrorItemFallback ==
    <<Tk("{"), TStr("data"), Tk(":"), Tk("["), TStr("error"), Tk("]"), Tk("}")>>

\* _extract_with_llm: the reply's text, "{}" when the call raises
ExtractFallback == <<Tk("{"), Tk("}")>>

ExtractWithLLM(outcome) == IF outcome.ok THEN outcome.text ELSE ExtractFallback

\* The characters of the str values that occur as "data".
CharsOf(str) ==
    CASE str = "" -> <<>>
      [] str = "ab" -> <<"a", "b">>
      [] OTHER -> <<str>>

\* list.extend(v) raises TypeError unless v is iterable
Iterable(v) == v.t \in {"list", "str", "dict"}

\* what iterating v yields: a list's elements, a str's characters, a dict's keys
Elems(v) ==
    CASE v.t = "list" -> v.a
      [] v.t = "str" -> [i \in 1..Len(CharsOf(v.s)) |-> JStr(CharsOf(v.s)[i])]
      [] v.t = "dict" -> [i \in 1..Len(v.o) |-> JStr(v.o[i].k)]
      [] OTHER -> <<>>

\* _run_adaptive_extraction, step 1: all_items after the try block.
\* json.loads raising, data without .get (not a dict) and extend raising
\* (items not iterable) are all caught and leave all_items as it was.
AdaptiveMerge(items, text) ==
    LET p == JsonLoads(text)
    IN  IF ~p.ok \/ p.v.t # "dict" THEN items
        ELSE LET found == DictGet(p.v, "data", JList(<<>>))
             IN  IF Iterable(found) THEN items \o Elems(found) ELSE items

\* a merge that keeps only the items of the latest page
DeepMergeLatest(items, text) ==
    LET p == JsonLoads(text)
    IN  IF p.ok /\ p.v.t = "dict" /\ HasKey(p.v, "data") /\ Lookup(p.v, "data").t = "list"
        THEN Lookup(p.v, "data").a
        ELSE items

\* _run_deep_extraction: all_items after the try block.  '"data" in data'
\* is True only for a dict with that key here (a list holding the str
\* "data" or a str containing it then fails at data["data"], which the bare
\* except catches), and the value must be a list.
DeepMerge(items, text) ==
    LET p == JsonLoads(text)
    IN  IF p.ok /\ p.v.t = "dict" /\ HasKey(p.v, "data") /\ Lookup(p.v, "data").t = "list"
        THEN items \o Lookup(p.v, "data").a
        ELSE items

\* Optional[str]: None, or a str
NoUrl == [some |-> FALSE, url |-> <<>>]

SomeUrl(u) == [some |-> TRUE, url |-> u]

\* _find_next_page
FindNextPage(outcome, current) ==
    IF ~outcome.ok THEN NoUrl
    ELSE LET next_link == Strip(outcome.text)
         IN  IF ContainsNone(next_link) \/ next_link = <<>> THEN NoUrl
             ELSE IF StartsWithSlash(next_link) THEN SomeUrl(UrlJoinBase(current, next_link))
             ELSE SomeUrl(next_link)

\* "not next_url": None or the empty str
NotUrl(next) == ~next.some \/ next.url = <<>>

\* a result that is the list of items itself
BareListResult(items) == JsonDumps(JList(items))

\* json.dumps({"data": all_items}, indent=2)
DataResult(items) == JsonDumps(JDict(<<KV("data", JList(items))>>))

\* int and bool values compare with int; every other type raises TypeError
Numeric(v) == v.t \in {"num", "bool"}

\* a loop that admits one page too many
LoopCondInclusive(pages, max) == pages <= max.n

\* a loop without a page budget
LoopCondAlways(pages, max) == TRUE

\* while pages_crawled < max_pages
LoopCond(pages, max) == pages < max.n

\* a target check that wants more items than the target
TargetReachedStrict(items, target) == target.n > 0 /\ Len(items) > target.n

\* if target_count > 0 and len(all_items) >= target_count
TargetReached(items, target) == target.n > 0 /\ Len(items) >= target.n

(***************************************************************************)
(* The provider an object selects for its LLM calls from the API key       *)
(* (brain.py 17-30, 65-79, 144-157; d_crawler.py 24-41).                   *)
(***************************************************************************)
\* The parts of the API keys that occur, as far as startswith can tell
\* them apart.
KeyAtoms(key) ==
    CASE key = "" -> <<>>
      [] key = "gsk_k" -> <<"gsk_", "k">>
      [] key = "sk-proj-k" -> <<"sk-", "proj-", "k">>
      [] key = "sk-k" -> <<"sk-", "k">>
      [] key = "sk-" -> <<"sk-">>
      [] key = "sk-or-v1-k" -> <<"sk-", "or-", "v1-", "k">>
      [] key = "sk-or-k" -> <<"sk-", "or-", "k">>
      [] key = "pk-gsk_k" -> <<"pk-", "gsk_", "k">>
      [] OTHER -> <<key>>

\* key.startswith(prefix), prefix given by its parts
StartsWith(key, prefix) ==
    /\ Len(KeyAtoms(key)) >= Len(prefix)
    /\ SubSeq(KeyAtoms(key), 1, Len(prefix)) = prefix

OpenRouter ==
    [base_url |-> "https://openrouter.ai/api/v1", model |-> "openai/gpt-5-nano"]

Groq ==
    [base_url |-> "https://api.groq.com/openai/v1", model |-> "llama3-70b-8192"]

OpenAI ==
    [base_url |-> "https://api.openai.com/v1", model |-> "gpt-4o"]

\* no provider selected yet
NoProvider ==
    [base_url |-> "", model |-> ""]

\* IntentAnalyzer.__init__, SchemaGenerator.__init__, ConfigExtractor.__init__
BrainProvider(key) ==
    IF StartsWith(key, <<"gsk_">>) THEN Groq
    ELSE IF StartsWith(key, <<"sk-", "proj-">>) THEN OpenAI
    ELSE OpenRouter

\* CrawlerEngine._get_provider_config
GetProviderConfig(key) ==
    IF key = "" THEN OpenRouter
    ELSE IF StartsWith(key, <<"gsk_">>) THEN Groq
    ELSE IF /\ StartsWith(key, <<"sk-", "proj-">>) \/ StartsWith(key, <<"sk-">>)
            /\ ~StartsWith(key, <<"sk-", "or-">>)
    THEN OpenAI
    ELSE OpenRouter

\* the objects that make LLM calls
Classes ==
    {"IntentAnalyzer", "SchemaGenerator", "ConfigExtractor", "CrawlerEngine"}

\* which provider an object of class c selects for the key
SelectProvider(c, key) ==
    IF c = "CrawlerEngine" THEN GetProviderConfig(key) ELSE BrainProvider(key)

\* the API keys: none, Groq, OpenAI project, OpenAI, the bare prefix,
\* OpenRouter (two forms), one with gsk_ inside, one with no known prefix
ApiKeys ==
    {"", "gsk_k", "sk-proj-k", "sk-k", "sk-", "sk-or-v1-k", "sk-or-k", "pk-gsk_k", "key"}

(***************************************************************************)
(* Bounds of the model.                                                    *)
(***************************************************************************)
\* the largest max_pages a direct call passes
MaxPages == 2

\* the largest target_count a direct call passes
MaxTarget == 3

\* the most results one deep crawl of the library yields
MaxDeepResults == 2

(***************************************************************************)
(* State.  The arguments and locals of CrawlerEngine.run_extraction and    *)
(* of the strategy it runs, the position pc in that code, and what a run   *)
(* has done so far (fetches .. ran), which the code does not keep.         *)
(***************************************************************************)
VARIABLES
    api_key,        \* CrawlerEngine.api_key ("" for None or empty)
    url,            \* run_extraction's url
    strategy,       \* run_extraction's strategy
    max_pages,      \* run_extraction's max_pages, a value
    target_count,   \* run_extraction's target_count, a value
    pc,             \* where the engine is
    current_url,    \* _run_adaptive_extraction: current_url
    all_items,      \* all_items of the deep and the adaptive strategy
    visited_urls,   \* _run_adaptive_extraction: visited_urls
    pages_crawled,  \* _run_adaptive_extraction: pages_crawled
    ret,            \* the str the engine returned (pc = "returned")
    fetches,        \* the URLs crawler.arun was called with, with multiplicity
    nExtract,       \* calls of _extract_with_llm
    nNext,          \* calls of _find_next_page
    iters,          \* iterations of the adaptive loop entered
    deepSeen,       \* results the deep crawl has yielded
    stop,           \* why the adaptive loop ended
    lastNext,       \* the outcome of the latest next-page LLM call
    lastExtract,    \* the outcome of the latest extraction LLM call
    llmOk,          \* no LLM call raised and every extraction reply was {"data": [...]}
    ran,            \* the strategies run_extraction has started
    app,            \* where the caller is: app.py's main flow, or a test script
    intent,         \* app.py: strategy, the value analyze returned
    schema,         \* app.py: schema, the model generate_schema returned
    config,         \* app.py: config, the dict extract_config returned
    llm,            \* the outcome of the LLM call of each brain.py operation
    calls,          \* the operations the caller has run, in order
    ui,             \* what the page shows
    provider        \* the base URL and model each object has selected for its LLM calls

vars ==
    <<api_key, url, strategy, max_pages, target_count, pc, current_url, all_items,
      visited_urls, pages_crawled, ret, fetches, nExtract, nNext, iters, deepSeen,
      stop, lastNext, lastExtract, llmOk, ran, app, intent, schema, config, llm, calls, ui,
      provider>>

engine ==
    <<api_key, url, strategy, max_pages, target_count, pc, current_url, all_items,
      visited_urls, pages_crawled, ret, fetches, nExtract, nNext, iters, deepSeen,
      stop, lastNext, lastExtract, llmOk, ran>>

caller == <<app, intent, schema, config, llm, calls, ui, provider>>

args == <<api_key, url, strategy, max_pages, target_count>>

adaptiveLocals == <<current_url, all_items, visited_urls, pages_crawled>>

history == <<fetches, nExtract, nNext, iters, deepSeen, stop, lastNext, lastExtract,
            llmOk, ran>>

\* a crawl that is issued a second time
FetchedTwice(u) ==
    IF u \in DOMAIN fetches
    THEN [fetches EXCEPT ![u] = @ + 2]
    ELSE [x \in DOMAIN fetches \cup {u} |-> IF x = u THEN 2 ELSE fetches[x]]

\* fetches with one more call for u
Fetched(u) ==
    IF u \in DOMAIN fetches
    THEN [fetches EXCEPT ![u] = @ + 1]
    ELSE [x \in DOMAIN fetches \cup {u} |-> IF x = u THEN 1 ELSE fetches[x]]

\* the number of crawler.arun calls so far
RECURSIVE SumOf(_, _)
SumOf(f, dom) ==
    IF dom = {} THEN 0
    ELSE LET x == CHOOSE y \in dom : TRUE IN f[x] + SumOf(f, dom \ {x})

NumFetches == SumOf(fetches, DOMAIN fetches)

\* the text "Error: API Key is required for extraction."
NoKeyError == <<TText("Error: API Key is required for extraction.")>>

\* the text f"Error crawling {url}: {result.error_message}"
CrawlError(u) == <<TText("Error crawling")>> \o [i \in 1..Len(u) |-> TText(u[i])]

\* a well-formed extraction reply: an object whose "data" is a list
WellFormed(outcome) ==
    /\ outcome.ok
    /\ LET p == JsonLoads(outcome.text)
       IN  p.ok /\ p.v.t = "dict" /\ HasKey(p.v, "data") /\ Lookup(p.v, "data").t = "list"

StrategyArgs == {"simple", "deep", "adaptive", "Deep"}

NoSchema == [name |-> "", fields |-> <<>>]

\* the locals and the history of an engine that has not run
EngineFresh ==
    /\ current_url = <<>>
    /\ all_items = <<>>
    /\ visited_urls = {}
    /\ pages_crawled = 0
    /\ ret = <<>>
    /\ fetches = <<>>
    /\ nExtract = 0
    /\ nNext = 0
    /\ iters = 0
    /\ deepSeen = 0
    /\ stop = ""
    /\ lastNext = LLMRaised
    /\ lastExtract = LLMRaised
    /\ llmOk = TRUE
    /\ ran = {}

\* the caller's variables before anything ran
CallerFresh ==
    /\ intent = JNull
    /\ schema = NoSchema
    /\ config = JNull
    /\ llm = [intent |-> LLMRaised, schema |-> LLMRaised, config |-> LLMRaised]
    /\ ui = {}
    /\ provider = [c \in Classes |-> NoProvider]

\* A test script calls run_extraction, or run_summary, on a fresh engine
\* (test_strategies.py 25-48, test_smart_summary.py 36-39).
Init ==
    /\ api_key \in {"", "sk-or-v1-k"}
    /\ url = UrlP1
    /\ \/ /\ pc = "call"
          /\ calls = <<"run_extraction">>
          /\ strategy \in StrategyArgs
          /\ max_pages \in {JNum(m) : m \in -1..MaxPages}
          /\ target_count \in {JNum(t) : t \in 0..MaxTarget}
       \/ /\ pc = "sum_fetch"
          /\ calls = <<"run_summary">>
          /\ strategy = "simple"
          /\ max_pages = JNum(1)
          /\ target_count = JNum(0)
    /\ EngineFresh
    /\ app = "test"
    /\ CallerFresh

\* app.py after the Run button, with url and prompt given and the API key
\* of the environment (38-41, 63).
InitApp ==
    /\ api_key = "sk-or-v1-k"
    /\ url = UrlP1
    /\ strategy = "simple"
    /\ max_pages = JNum(1)
    /\ target_count = JNum(0)
    /\ pc = "idle"
    /\ EngineFresh
    /\ app = "start"
    /\ calls = <<>>
    /\ CallerFresh

\* A test script with the three brain.py objects (test_config_extractor.py,
\* test_complete.py 32-40).
InitBrain ==
    /\ api_key = "sk-or-v1-k"
    /\ url = UrlP1
    /\ strategy = "simple"
    /\ max_pages = JNum(1)
    /\ target_count = JNum(0)
    /\ pc = "idle"
    /\ EngineFresh
    /\ app = "brain"
    /\ calls = <<>>
    /\ CallerFresh

\* Objects made with one API key, as app.py 69-93 and the test scripts
\* make them (test_full_suite.py 20-21, 68).
InitProvider ==
    /\ api_key \in ApiKeys
    /\ url = UrlP1
    /\ strategy = "simple"
    /\ max_pages = JNum(1)
    /\ target_count = JNum(0)
    /\ pc = "idle"
    /\ EngineFresh
    /\ app = "provider"
    /\ calls = <<>>
    /\ CallerFresh

\* return text
Return(text) == pc' = "returned" /\ ret' = text

\* an exception leaves the engine
Raise == pc' = "raised" /\ ret' = <<>>

(***************************************************************************)
(* run_extraction (d_crawler.py 116-138)                                   *)
(***************************************************************************)
\* a dispatch that ignores the case of the strategy argument
DispatchAnyCase(strat) ==
    IF strat \in {"deep", "Deep"} THEN "deep"
    ELSE IF strat = "adaptive" THEN "adaptive" ELSE "simple"

\* 131-138: which strategy a strategy argument selects
Dispatch(strat) ==
    IF strat = "deep" THEN "deep" ELSE IF strat = "adaptive" THEN "adaptive" ELSE "simple"

RunExtraction ==
    /\ pc = "call"
    /\ IF api_key = ""
       THEN /\ Return(NoKeyError)
            /\ UNCHANGED <<adaptiveLocals, history>>
       ELSE /\ ran' = ran \cup {Dispatch(strategy)}
            /\ pc' = CASE Dispatch(strategy) = "deep" -> "deep_crawl"
                       [] Dispatch(strategy) = "adaptive" -> "ad_head"
                       [] OTHER -> "simple_fetch"
            /\ current_url' = IF Dispatch(strategy) = "adaptive" THEN url ELSE current_url
            /\ UNCHANGED <<ret, all_items, visited_urls, pages_crawled, fetches, nExtract,
                           nNext, iters, deepSeen, stop, lastNext,
                           lastExtract, llmOk>>
    /\ UNCHANGED args
    /\ UNCHANGED caller

(***************************************************************************)
(* _run_simple_extraction (140-152)                                        *)
(***************************************************************************)
SimpleFetch ==
    /\ pc = "simple_fetch"
    /\ fetches' = Fetched(url)
    /\ \E success \in BOOLEAN :
          IF success
          THEN pc' = "simple_extract" /\ ret' = ret
          ELSE Return(CrawlError(url))
    /\ UNCHANGED <<args, adaptiveLocals, nExtract, nNext, iters, deepSeen, stop, lastNext, lastExtract,
                   llmOk, ran>>
    /\ UNCHANGED caller

SimpleExtract ==
    /\ pc = "simple_extract"
    /\ \E o \in ExtractOutcomes :
          /\ Return(ExtractWithLLM(o))
          /\ lastExtract' = o
          /\ llmOk' = (llmOk /\ WellFormed(o))
    /\ nExtract' = nExtract + 1
    /\ UNCHANGED <<args, adaptiveLocals, fetches, nNext, iters, deepSeen, stop, lastNext, ran>>
    /\ UNCHANGED caller

(***************************************************************************)
(* _run_deep_extraction (154-196).  The crawl itself is the library's: it  *)
(* yields some results, each successful or not.                            *)
(***************************************************************************)
DeepCrawl ==
    /\ pc = "deep_crawl"
    /\ fetches' = Fetched(url)
    /\ pc' = "deep_iter"
    /\ UNCHANGED <<args, adaptiveLocals, ret, nExtract, nNext, iters, deepSeen, stop,
                   lastNext, lastExtract, llmOk, ran>>
    /\ UNCHANGED caller

\* async for result in ...: the next result
DeepResult ==
    /\ pc = "deep_iter"
    /\ deepSeen < MaxDeepResults
    /\ deepSeen' = deepSeen + 1
    /\ \E success \in BOOLEAN : pc' = IF success THEN "deep_extract" ELSE "deep_iter"
    /\ UNCHANGED <<args, adaptiveLocals, ret, fetches, nExtract, nNext, iters, stop,
                   lastNext, lastExtract, llmOk, ran>>
    /\ UNCHANGED caller

DeepExtract ==
    /\ pc = "deep_extract"
    /\ \E o \in ExtractOutcomes :
          /\ all_items' = DeepMerge(all_items, ExtractWithLLM(o))
          /\ lastExtract' = o
          /\ llmOk' = (llmOk /\ WellFormed(o))
    /\ nExtract' = nExtract + 1
    /\ pc' = "deep_iter"
    /\ UNCHANGED <<args, current_url, visited_urls, pages_crawled, ret, fetches, nNext,
                   iters, deepSeen, stop, lastNext, ran>>
    /\ UNCHANGED caller

\* the results are exhausted
DeepEnd ==
    /\ pc = "deep_iter"
    /\ Return(DataResult(all_items))
    /\ UNCHANGED <<args, adaptiveLocals, history>>
    /\ UNCHANGED caller

(***************************************************************************)
(* _run_adaptive_extraction (198-249)                                      *)
(***************************************************************************)
\* a return that drops what was collected
AdaptiveReturnEmpty(why) ==
    /\ Return(DataResult(<<>>))
    /\ stop' = why

\* the loop ends for reason why and the function returns (line 249)
AdaptiveReturn(why) ==
    /\ Return(DataResult(all_items))
    /\ stop' = why

\* a loop that forgets what it visited
NeverVisited(u) == FALSE

\* if current_url in visited_urls
Visited(u) == u \in visited_urls

\* 210-217: the loop condition, the visited check, the bookkeeping
AdaptiveHead ==
    /\ pc = "ad_head"
    /\ IF ~Numeric(max_pages)
       THEN Raise /\ UNCHANGED <<adaptiveLocals, iters, stop>>
       ELSE IF ~LoopCond(pages_crawled, max_pages)
       THEN AdaptiveReturn("budget") /\ UNCHANGED <<adaptiveLocals, iters>>
       ELSE IF Visited(current_url)
       THEN /\ AdaptiveReturn("visited")
            /\ iters' = iters + 1
            /\ UNCHANGED adaptiveLocals
       ELSE /\ visited_urls' = visited_urls \cup {current_url}
            /\ pages_crawled' = pages_crawled + 1
            /\ iters' = iters + 1
            /\ pc' = "ad_fetch"
            /\ UNCHANGED <<current_url, all_items, ret, stop>>
    /\ UNCHANGED <<args, fetches, nExtract, nNext, deepSeen, lastNext, lastExtract,
                   llmOk, ran>>
    /\ UNCHANGED caller

\* 219-223
AdaptiveFetch ==
    /\ pc = "ad_fetch"
    /\ fetches' = Fetched(current_url)
    /\ \E success \in BOOLEAN :
          IF success
          THEN pc' = "ad_extract" /\ UNCHANGED <<ret, stop>>
          ELSE AdaptiveReturn("fetchfail")
    /\ UNCHANGED <<args, adaptiveLocals, nExtract, nNext, iters, deepSeen, lastNext,
                   lastExtract, llmOk, ran>>
    /\ UNCHANGED caller

\* 225-233
AdaptiveExtract ==
    /\ pc = "ad_extract"
    /\ \E o \in ExtractOutcomes :
          /\ all_items' = AdaptiveMerge(all_items, ExtractWithLLM(o))
          /\ lastExtract' = o
          /\ llmOk' = (llmOk /\ WellFormed(o))
    /\ nExtract' = nExtract + 1
    /\ pc' = "ad_check"
    /\ UNCHANGED <<args, current_url, visited_urls, pages_crawled, ret, fetches, nNext,
                   iters, deepSeen, stop, lastNext, ran>>
    /\ UNCHANGED caller

\* 235-238
AdaptiveCheck ==
    /\ pc = "ad_check"
    /\ IF ~Numeric(target_count)
       THEN Raise /\ stop' = stop
       ELSE IF TargetReached(all_items, target_count)
       THEN AdaptiveReturn("target")
       ELSE pc' = "ad_next" /\ UNCHANGED <<ret, stop>>
    /\ UNCHANGED <<args, adaptiveLocals, fetches, nExtract, nNext, iters, deepSeen,
                   lastNext, lastExtract, llmOk, ran>>
    /\ UNCHANGED caller

\* 240-247
AdaptiveNext ==
    /\ pc = "ad_next"
    /\ \E o \in NextOutcomes :
          LET next_url == FindNextPage(o, current_url)
          IN  /\ lastNext' = o
              /\ llmOk' = (llmOk /\ o.ok)
              /\ IF NotUrl(next_url)
                 THEN AdaptiveReturn("nonext") /\ current_url' = current_url
                 ELSE /\ current_url' = next_url.url
                      /\ pc' = "ad_head"
                      /\ UNCHANGED <<ret, stop>>
    /\ nNext' = nNext + 1
    /\ UNCHANGED <<args, all_items, visited_urls, pages_crawled, fetches, nExtract, iters,
                   deepSeen, lastExtract, ran>>
    /\ UNCHANGED caller

(***************************************************************************)
(* run_summary (43-114)                                                    *)
(***************************************************************************)
\* the text "Error: API Key missing for summarization."
NoKeySummaryError == <<TText("Error: API Key missing for summarization.")>>

\* the text of a summary the LLM wrote
SummaryText == <<TText("A summary")>>

\* the text "Error generating summary: ... Returning raw markdown sample: ..."
SummaryFailedText == <<TText("Error generating summary"), TText("raw markdown sample")>>

\* 48-67: the crawl, then the API key check
SummaryFetch ==
    /\ pc = "sum_fetch"
    /\ fetches' = Fetched(url)
    /\ \E success \in BOOLEAN :
          IF ~success THEN Return(CrawlError(url))
          ELSE IF api_key = "" THEN Return(NoKeySummaryError)
          ELSE pc' = "sum_llm" /\ ret' = ret
    /\ UNCHANGED <<args, adaptiveLocals, nExtract, nNext, iters, deepSeen, stop, lastNext, lastExtract,
                   llmOk, ran>>
    /\ UNCHANGED caller

\* 99-114
SummaryLLM ==
    /\ pc = "sum_llm"
    /\ \E o \in {LLMRaised, LLMReply(SummaryText)} :
          /\ Return(IF o.ok THEN o.text ELSE SummaryFailedText)
          /\ llmOk' = (llmOk /\ o.ok)
    /\ UNCHANGED <<args, adaptiveLocals, fetches, nExtract, nNext, iters, deepSeen, stop,
                   lastNext, lastExtract, ran>>
    /\ UNCHANGED caller

NextEngine ==
    \/ RunExtraction
    \/ SimpleFetch
    \/ SimpleExtract
    \/ DeepCrawl
    \/ DeepResult
    \/ DeepExtract
    \/ DeepEnd
    \/ AdaptiveHead
    \/ AdaptiveFetch
    \/ AdaptiveExtract
    \/ AdaptiveCheck
    \/ AdaptiveNext
    \/ SummaryFetch
    \/ SummaryLLM

(***************************************************************************)
(* A test script calling the brain.py operations, each once, in any order. *)
(***************************************************************************)
\* op is among the operations the caller has run
Called(op) == \E i \in 1..Len(calls) : calls[i] = op

\* IntentAnalyzer.analyze (32-62)
CallAnalyze ==
    /\ app = "brain"
    /\ ~Called("intent")
    /\ \E o \in IntentOutcomes :
          /\ intent' = Analyze(o)
          /\ llm' = [llm EXCEPT !.intent = o]
    /\ calls' = Append(calls, "intent")
    /\ UNCHANGED <<engine, app, schema, config, ui>>
    /\ UNCHANGED provider

\* SchemaGenerator.generate_schema (81-141)
CallGenerateSchema ==
    /\ app = "brain"
    /\ ~Called("schema")
    /\ \E o \in SchemaOutcomes :
          /\ schema' = GenerateSchema(o)
          /\ llm' = [llm EXCEPT !.schema = o]
    /\ calls' = Append(calls, "schema")
    /\ UNCHANGED <<engine, app, intent, config, ui>>
    /\ UNCHANGED provider

\* ConfigExtractor.extract_config (159-205)
CallExtractConfig ==
    /\ app = "brain"
    /\ ~Called("config")
    /\ \E o \in ConfigOutcomes :
          /\ config' = ExtractConfig(o)
          /\ llm' = [llm EXCEPT !.config = o]
    /\ calls' = Append(calls, "config")
    /\ UNCHANGED <<engine, app, intent, schema, ui>>
    /\ UNCHANGED provider

\* An object of class c selects its provider: the brain classes in
\* __init__, the engine in _get_provider_config.
Select(c) ==
    /\ app = "provider"
    /\ provider[c] = NoProvider
    /\ provider' = [provider EXCEPT ![c] = SelectProvider(c, api_key)]
    /\ UNCHANGED <<engine, app, intent, schema, config, llm, calls, ui>>

NewIntentAnalyzer ==
    Select("IntentAnalyzer")

NewSchemaGenerator ==
    Select("SchemaGenerator")

NewConfigExtractor ==
    Select("ConfigExtractor")

EngineProviderConfig ==
    Select("CrawlerEngine")

NextProvider ==
    \/ NewIntentAnalyzer
    \/ NewSchemaGenerator
    \/ NewConfigExtractor
    \/ EngineProviderConfig

NextBrain ==
    \/ CallAnalyze
    \/ CallGenerateSchema
    \/ CallExtractConfig

(***************************************************************************)
(* app.py: the main flow after the Run button (63-165).                    *)
(***************************************************************************)
\* 65-71: intent analysis
AppAnalyze ==
    /\ app = "start"
    /\ \E o \in AppIntentOutcomes :
          /\ intent' = Analyze(o)
          /\ llm' = [llm EXCEPT !.intent = o]
    /\ calls' = Append(calls, "intent")
    /\ ui' = ui \cup {"strategy"}
    /\ app' = "analyzed"
    /\ UNCHANGED <<engine, schema, config>>
    /\ UNCHANGED provider

\* 75-78: the summary branch calls run_summary
AppSummary ==
    /\ app = "analyzed"
    /\ intent = SUMMARY
    /\ pc' = "sum_fetch"
    /\ calls' = Append(calls, "run_summary")
    /\ app' = "summarizing"
    /\ UNCHANGED <<args, adaptiveLocals, ret, history, intent, schema, config, llm, ui>>
    /\ UNCHANGED provider

\* 80-83, 160-161: the summary is shown
AppShowSummary ==
    /\ app = "summarizing"
    /\ pc = "returned"
    /\ ui' = ui \cup {"result", "download", "done"}
    /\ app' = "done"
    /\ UNCHANGED <<engine, intent, schema, config, llm, calls>>
    /\ UNCHANGED provider

\* 87-89: the extraction branch generates the schema
AppSchema ==
    /\ app = "analyzed"
    /\ intent # SUMMARY
    /\ \E o \in AppSchemaOutcomes :
          /\ schema' = GenerateSchema(o)
          /\ llm' = [llm EXCEPT !.schema = o]
    /\ calls' = Append(calls, "schema")
    /\ app' = "schema"
    /\ UNCHANGED <<engine, intent, config, ui>>
    /\ UNCHANGED provider

\* 92-100: the config is extracted and the execution plan shown
AppConfig ==
    /\ app = "schema"
    /\ \E o \in AppConfigOutcomes :
          /\ config' = ExtractConfig(o)
          /\ llm' = [llm EXCEPT !.config = o]
    /\ calls' = Append(calls, "config")
    /\ ui' = ui \cup {"plan"}
    /\ app' = "config"
    /\ UNCHANGED <<engine, intent, schema>>
    /\ UNCHANGED provider

\* a flow that starts the crawl once the schema is there
ReadyAfterSchema == app \in {"schema", "config"}

\* the crawl starts (118) after the schema (89) and the config (94)
ReadyToCrawl == app = "config"

\* 96-124: run_extraction is called with the config's values
AppCrawl ==
    /\ ReadyToCrawl
    /\ strategy' = DictGet(config, "strategy", JStr("simple")).s
    /\ target_count' = DictGet(config, "target_count", JNum(0))
    /\ max_pages' = DictGet(config, "max_pages", JNum(1))
    /\ pc' = "call"
    /\ calls' = Append(calls, "run_extraction")
    /\ ui' = ui \cup {"schema"}
    /\ app' = "crawling"
    /\ UNCHANGED <<api_key, url, adaptiveLocals, ret, history, intent, schema, config, llm>>
    /\ UNCHANGED provider

\* len(v) raises TypeError unless v is sized
Sized(v) == v.t \in {"list", "str", "dict"}

PyLen(v) ==
    CASE v.t = "list" -> Len(v.a)
      [] v.t = "str" -> Len(CharsOf(v.s))
      [] v.t = "dict" -> Len(v.o)
      [] OTHER -> 0

\* 133-139: the items of the parsed result
ItemsOf(data) ==
    IF data.t = "dict" /\ HasKey(data, "data") THEN Lookup(data, "data")
    ELSE IF data.t = "list" THEN data
    ELSE JList(<<data>>)

\* 126-165: what the page shows for the crawler's result.  Any exception
\* but JSONDecodeError (the engine raising, an empty result, len() of an
\* unsized value, a DataFrame of something that is no list) reaches the
\* outer handler; after a JSON parse error the flow goes on to "Done!".
HandleResult(raised, json_result) ==
    IF raised THEN {"critical_error"}
    ELSE IF json_result = <<>> THEN {"header", "critical_error"}
    ELSE LET p == JsonLoads(json_result)
         IN  IF ~p.ok THEN {"header", "json_error", "done"}
             ELSE IF ~Sized(ItemsOf(p.v)) THEN {"header", "critical_error"}
             ELSE IF PyLen(ItemsOf(p.v)) = 0 THEN {"header", "warning", "done"}
             ELSE IF ItemsOf(p.v).t # "list" THEN {"header", "critical_error"}
             ELSE {"header", "table", "success", "downloads", "done"}

AppHandle ==
    /\ app = "crawling"
    /\ pc \in {"returned", "raised"}
    /\ ui' = ui \cup HandleResult(pc = "raised", ret)
    /\ app' = "done"
    /\ UNCHANGED <<engine, intent, schema, config, llm, calls>>
    /\ UNCHANGED provider

NextApp ==
    \/ AppAnalyze
    \/ AppSummary
    \/ AppShowSummary
    \/ AppSchema
    \/ AppConfig
    \/ AppCrawl
    \/ AppHandle

Next == NextEngine

\* the engine called as the test scripts call it
Spec == Init /\ [][Next]_vars

\* the app's main flow
SpecApp == InitApp /\ [][NextApp \/ NextEngine]_vars

\* the three brain.py operations called as the test scripts call them
SpecBrain == InitBrain /\ [][NextBrain]_vars

\* the objects select their providers for one API key
SpecProvider == InitProvider /\ [][NextProvider]_vars

\* every crawl and every LLM call returns, so the engine takes its next step
LiveSpec == Spec /\ WF_vars(Next)

(***************************************************************************)
(* The claims.                                                             *)
(***************************************************************************)
\* the text {"data": []}
EmptyDataText == <<Tk("{"), TStr("data"), Tk(":"), Tk("["), Tk("]"), Tk("}")>>

\* max_pages as a page budget: a budget below 0 allows no page
Budget == IF max_pages.n > 0 THEN max_pages.n ELSE 0

\* the engine has left run_extraction or run_summary
Ended == pc \in {"returned", "raised"}

\* C1: an adaptive run never calls crawler.arun more than max_pages times;
\* with max_pages <= 0 it calls it not at all and returns {"data": []}.
C1_PageBudget ==
    ran = {"adaptive"} =>
        /\ NumFetches <= Budget
        /\ (max_pages.n <= 0 /\ pc = "returned") => (NumFetches = 0 /\ ret = EmptyDataText)

\* an adaptive run that returned after it used its whole budget of two or
\* more pages
C1_Witness ==
    /\ ran = {"adaptive"}
    /\ pc = "returned"
    /\ max_pages.n >= 2
    /\ NumFetches = max_pages.n

\* C2: the step after a page's extraction ends the loop on the target
\* criterion exactly when target_count > 0 and len(all_items) >= target_count;
\* the run then has returned, and no next-page lookup and no fetch follows.
\* With target_count = 0 the criterion never ends the loop.
C2_TargetStop ==
    [][/\ pc = "ad_check" =>
             ((stop' = "target") <=>
                 (target_count.n > 0 /\ Len(all_items) >= target_count.n))
       /\ (pc = "ad_check" /\ stop' # "target") => pc' = "ad_next"
       /\ stop' = "target" =>
             /\ pc' = "returned"
             /\ target_count.n > 0
             /\ nNext' = nNext
             /\ fetches' = fetches]_vars

\* the loop stopped on the target on its second page, after one lookup
C2_Witness ==
    /\ stop = "target"
    /\ pages_crawled = 2
    /\ nNext = 1
    /\ Len(all_items) >= target_count.n

\* C3: in an adaptive run no URL is fetched twice: a URL is in visited_urls
\* before crawler.arun is called with it, and a next-page link that was
\* visited ends the loop without another fetch of it.
C3_NoRefetch ==
    ran = {"adaptive"} =>
        /\ \A u \in DOMAIN fetches : fetches[u] = 1 /\ u \in visited_urls
        /\ pc = "ad_fetch" => (current_url \in visited_urls /\ current_url \notin DOMAIN fetches)
        /\ stop = "visited" =>
              (pc = "returned" /\ current_url \in DOMAIN fetches /\ nNext = NumFetches)

\* the next-page link led back to the start URL, with budget left
C3_Witness ==
    /\ stop = "visited"
    /\ pages_crawled < max_pages.n
    /\ current_url = url
    /\ fetches[url] = 1

\* C4: an adaptive run ends, whatever the crawler and the LLM answer, and it
\* enters the loop body at most max_pages times.
C4_Terminates ==
    /\ (pc = "ad_head") ~> Ended
    /\ [](ran = {"adaptive"} => iters <= Budget)

\* a run that went through max_pages >= 2 iterations over fresh URLs and
\* ended with a fresh next-page link in hand
C4_Witness ==
    /\ ran = {"adaptive"}
    /\ stop = "budget"
    /\ max_pages.n >= 2
    /\ iters = max_pages.n
    /\ current_url \notin visited_urls

\* the text parses as a JSON object whose "data" is a list
HasDataList(text) ==
    LET p == JsonLoads(text)
    IN  p.ok /\ p.v.t = "dict" /\ HasKey(p.v, "data") /\ Lookup(p.v, "data").t = "list"

\* the reply of the latest next-page LLM call names no next page
SaidNoNextPage == Strip(lastNext.text) \in {<<>>, <<"None">>}

\* C5: an adaptive run with target_count T > 0 in which every fetch and every
\* LLM call succeeded returns at least T items, unless the chain of next
\* links held fewer: max_pages pages were fetched, the chain led back to a
\* visited page, or the LLM answered that there is no next page.  A page
\* with fewer than T items and a next link is followed by the next page.
C5_ReachesTarget ==
    (/\ ran = {"adaptive"}
     /\ pc = "returned"
     /\ llmOk
     /\ stop # "fetchfail"
     /\ target_count.n > 0
     /\ Len(all_items) < target_count.n)
        => \/ pages_crawled >= max_pages.n
           \/ stop = "visited"
           \/ stop = "nonext" /\ SaidNoNextPage

\* C6, as stated: every string run_extraction returns parses as a JSON
\* object whose "data" is a list.
C6_AlwaysDataObject ==
    (Called("run_extraction") /\ pc = "returned") => HasDataList(ret)

\* C6, amended: the string run_extraction returns parses as a JSON object
\* whose "data" is a list when the deep or the adaptive strategy ran; the
\* single-page strategy returns such an object only when its fetch succeeded
\* and the LLM reply itself is one, and otherwise the text "Error crawling
\* ...", the text "{}" or the reply as it is; without an API key the string
\* is the text "Error: API Key is required for extraction.".
C6_DataObjectByStrategy ==
    (Called("run_extraction") /\ pc = "returned") =>
        /\ ran \in {{"deep"}, {"adaptive"}} => HasDataList(ret)
        /\ ran = {"simple"} =>
              /\ HasDataList(ret) <=> (nExtract = 1 /\ llmOk)
              /\ nExtract = 0 => ret = CrawlError(url)
              /\ nExtract = 1 =>
                    (ret = ExtractFallback \/ \E t \in ExtractReplies : ret = t)
        /\ ran = {} => (api_key = "" /\ ret = NoKeyError)

\* a deep run returned two or more items in its "data" list
C6_Witness ==
    /\ ran = {"deep"}
    /\ pc = "returned"
    /\ Len(all_items) >= 2
    /\ HasDataList(ret)
    /\ Lookup(JsonLoads(ret).v, "data").a = all_items

\* C7: a run_extraction call with an API key runs exactly one strategy:
\* the deep one for strategy "deep", the adaptive one for "adaptive", the
\* single-page one for every other value; the single-page one calls
\* crawler.arun exactly once, with the url given.
C7_OneStrategy ==
    (Called("run_extraction") /\ api_key # "" /\ pc # "call") =>
        /\ Cardinality(ran) = 1
        /\ strategy = "deep" => ran = {"deep"}
        /\ strategy = "adaptive" => ran = {"adaptive"}
        /\ strategy \notin {"deep", "adaptive"} => ran = {"simple"}
        /\ pc \in {"deep_crawl", "deep_iter", "deep_extract"} => ran = {"deep"}
        /\ pc \in {"ad_head", "ad_fetch", "ad_extract", "ad_check", "ad_next"} =>
              ran = {"adaptive"}
        /\ pc \in {"simple_fetch", "simple_extract"} => ran = {"simple"}
        /\ (ran = {"simple"} /\ pc # "simple_fetch") =>
              (DOMAIN fetches = {url} /\ fetches[url] = 1)

\* strategy "Deep" ran the single-page extraction, which fetched one page
C7_Witness ==
    /\ strategy = "Deep"
    /\ api_key # ""
    /\ ran = {"simple"}
    /\ pc = "returned"
    /\ nExtract = 1
    /\ NumFetches = 1

\* the operations run before the i-th one
Before(i) == {calls[j] : j \in 1..(i - 1)}

\* C8: in an app run the intent is classified before anything else runs;
\* run_extraction starts only after generate_schema and extract_config have
\* returned; on the summary path neither of the two is called.
C8_Order ==
    /\ calls # <<>> => calls[1] = "intent"
    /\ pc # "idle" => (Called("run_extraction") \/ Called("run_summary"))
    /\ \A i \in 1..Len(calls) :
          /\ calls[i] # "intent" => "intent" \in Before(i)
          /\ calls[i] = "run_extraction" => {"schema", "config"} \subseteq Before(i)
    /\ (Called("run_summary") \/ (Called("intent") /\ intent = SUMMARY)) =>
          (~Called("schema") /\ ~Called("config") /\ ~Called("run_extraction"))

\* an extraction run went through all four steps and showed its result
C8_Witness ==
    /\ app = "done"
    /\ calls = <<"intent", "schema", "config", "run_extraction">>
    /\ "table" \in ui

\* an LLM call that raised, or whose reply json.loads rejects
Unparsable(outcome, text) == ~outcome.ok \/ ~JsonLoads(text).ok

\* C9: when the LLM call raises or json.loads rejects the reply (for
\* generate_schema: the reply after its regex search and fence cleaning),
\* analyze returns "summary", extract_config returns {"strategy": "simple",
\* "target_count": 0, "max_pages": 1} and generate_schema returns the
\* fallback schema with the single str field content.
C9_Defaults ==
    /\ (Called("intent") /\ Unparsable(llm.intent, llm.intent.text)) =>
          intent = JStr("summary")
    /\ (Called("config") /\ Unparsable(llm.config, llm.config.text)) =>
          config = JDict(<<KV("strategy", JStr("simple")), KV("target_count", JNum(0)),
                           KV("max_pages", JNum(1))>>)
    /\ (Called("schema") /\ Unparsable(llm.schema, SchemaContent(llm.schema.text))) =>
          (schema.name = "FallbackSchema" /\ schema.fields = <<Field("content", "str")>>)

\* all three operations ran, the intent call raised, the config reply was
\* truncated JSON and the schema reply was prose
C9_Witness ==
    /\ Called("intent") /\ Called("config") /\ Called("schema")
    /\ ~llm.intent.ok
    /\ llm.config.ok /\ ~JsonLoads(llm.config.text).ok
    /\ llm.schema.ok /\ ~JsonLoads(SchemaContent(llm.schema.text)).ok
    /\ intent = SUMMARY
    /\ config = DefaultConfig
    /\ schema = FallbackSchema

\* the strategy of the dict the config reply parses to, None when it has none
ReplyStrategy ==
    LET p == JsonLoads(llm.config.text)
    IN  IF llm.config.ok /\ p.ok /\ p.v.t = "dict" THEN DictGet(p.v, "strategy", JNull)
        ELSE JNull

\* C10: the config extract_config returns has a "strategy" that is "simple",
\* "deep" or "adaptive": the reply's own when it is one of the three, and
\* "simple" when the reply has none or another value.
C10_StrategyValid ==
    Called("config") =>
        /\ config.t = "dict"
        /\ HasKey(config, "strategy")
        /\ Lookup(config, "strategy") \in {JStr("simple"), JStr("deep"), JStr("adaptive")}
        /\ Lookup(config, "strategy") =
              IF ReplyStrategy \in {JStr("simple"), JStr("deep"), JStr("adaptive")}
              THEN ReplyStrategy
              ELSE JStr("simple")

\* the reply's strategy was "explore", and the config says "simple"
C10_Witness ==
    /\ Called("config")
    /\ ReplyStrategy = JStr("explore")
    /\ Lookup(config, "strategy") = JStr("simple")
    /\ Lookup(config, "max_pages") = JNum(1)

\* C11: the config extract_config returned has the keys "strategy",
\* "target_count" and "max_pages", the two counts are numbers, and the
\* adaptive loop run with them does not raise at a comparison.
C11_ConfigNumbers ==
    Called("config") =>
        /\ config.t = "dict"
        /\ HasKey(config, "strategy")
        /\ HasKey(config, "target_count") /\ Numeric(Lookup(config, "target_count"))
        /\ HasKey(config, "max_pages") /\ Numeric(Lookup(config, "max_pages"))
        /\ pc # "raised"

\* C12: the value analyze returned is "summary" or "extraction".
C12_IntentValid ==
    Called("intent") => intent \in {JStr("summary"), JStr("extraction")}

\* C13: in an adaptive run no request is issued twice: every URL is
\* fetched at most once, every fetched page gets at most one extraction LLM
\* call and at most one next-page LLM call, a failed fetch ends the run, and
\* after an extraction or next-page call, failed or not, the loop moves on.
C13_NoRetry ==
    /\ [](ran = {"adaptive"} =>
            /\ \A u \in DOMAIN fetches : fetches[u] = 1
            /\ NumFetches <= pages_crawled
            /\ nExtract <= NumFetches /\ NumFetches <= nExtract + 1
            /\ nNext <= nExtract /\ nExtract <= nNext + 1)
    /\ [][ran = {"adaptive"} =>
            /\ (pc = "ad_fetch" /\ pc' # "ad_extract") =>
                  (pc' = "returned" /\ stop' = "fetchfail")
            /\ pc = "ad_extract" => (pc' = "ad_check" /\ nExtract' = nExtract + 1)
            /\ pc = "ad_next" =>
                  /\ nNext' = nNext + 1
                  /\ pc' \in {"ad_head", "returned"}
                  /\ ~lastNext'.ok => pc' = "returned"
            /\ pc \notin {"ad_fetch"} => fetches' = fetches
            /\ pc \notin {"ad_extract"} => nExtract' = nExtract
            /\ pc \notin {"ad_next"} => nNext' = nNext]_vars

\* the extraction call of page 1 raised and the fetch of page 2 failed;
\* neither was issued again
C13_Witness ==
    /\ stop = "fetchfail"
    /\ pages_crawled = 2
    /\ ~lastExtract.ok
    /\ NumFetches = 2
    /\ nExtract = 1
    /\ nNext = 1

\* C14: without an API key run_extraction and run_summary fetch no page and
\* make no LLM call, and return their API-key error string.
C14_NoKeyNoWork ==
    api_key = "" =>
        /\ NumFetches = 0
        /\ nExtract = 0 /\ nNext = 0 /\ pc # "sum_llm"
        /\ pc = "returned" =>
              ret = IF Called("run_extraction") THEN NoKeyError ELSE NoKeySummaryError

\* C15: a failed fetch in the adaptive loop ends the run at that page: no
\* extraction and no next-page LLM call follows, all_items stays as it was,
\* and the returned text is {"data": all_items}.
C15_FetchFailKeepsItems ==
    /\ [][stop' = "fetchfail" =>
            /\ pc' = "returned"
            /\ all_items' = all_items
            /\ nExtract' = nExtract
            /\ nNext' = nNext
            /\ HasDataList(ret')
            /\ Lookup(JsonLoads(ret').v, "data").a = all_items]_vars
    /\ [](stop = "fetchfail" =>
            (nExtract = NumFetches - 1 /\ nNext = NumFetches - 1))

\* the fetch of page 2 failed after page 1 gave two items
C15_Witness ==
    /\ stop = "fetchfail"
    /\ pages_crawled = 2
    /\ all_items = <<ItemA, ItemB>>
    /\ ret = DataText(JList(<<ItemA, ItemB>>))

\* C16: in the adaptive loop an extraction LLM call that raised, or whose
\* reply json.loads rejects, leaves all_items as it was and does not end the
\* loop: the target check runs and passes on to the next-page lookup, which
\* makes its LLM call.
C16_FailedExtractionFrame ==
    [][ran = {"adaptive"} =>
          /\ (pc = "ad_extract" /\ Unparsable(lastExtract', lastExtract'.text)) =>
                (all_items' = all_items /\ pc' = "ad_check" /\ stop' = stop)
          /\ (pc = "ad_check" /\ Unparsable(lastExtract, lastExtract.text)) =>
                (pc' = "ad_next" /\ all_items' = all_items /\ stop' = stop)
          /\ pc = "ad_next" => (nNext' = nNext + 1 /\ lastNext' \in NextOutcomes)]_vars

\* page 2's extraction reply was prose; the item of page 1 is still there
\* and the next-page lookup ran for page 2
C16_Witness ==
    /\ ran = {"adaptive"}
    /\ pages_crawled = 2
    /\ lastExtract.ok /\ ~JsonLoads(lastExtract.text).ok
    /\ all_items = <<ItemA>>
    /\ nNext = 2

\* C17: the next-page step ends the loop for lack of a next page exactly
\* when the LLM call raised or its reply, stripped, is "None" or empty; for
\* every other reply the loop goes on with the link.
C17_StopsOnlyWithoutLink ==
    [][pc = "ad_next" =>
          /\ (pc' = "returned") <=> (~lastNext'.ok \/ SaidNoNextPage')
          /\ pc' # "returned" => (pc' = "ad_head" /\ current_url' # <<>>)]_vars

\* the URL of C18 for a reply: scheme and host of the current URL followed
\* by the reply when it starts with "/", the reply itself otherwise
PrefixedLink(current, reply) ==
    IF StartsWithSlash(reply)
    THEN <<UrlScheme(current), "//">> \o UrlNetloc(current) \o reply
    ELSE reply

\* C18: for a reply that, stripped, is neither empty nor "None", the URL
\* _find_next_page returns is the reply itself, or, when the reply starts
\* with "/", the scheme and host of the current URL followed by the reply.
C18_AbsoluteLink ==
    [][(pc = "ad_next" /\ lastNext'.ok /\ ~SaidNoNextPage') =>
          /\ pc' = "ad_head"
          /\ current_url' = PrefixedLink(current_url, Strip(lastNext'.text))]_vars

\* the item list of an extraction outcome: the "data" list of a reply that
\* is a JSON object with such a list, nothing for every other outcome
ItemListOf(outcome) ==
    IF WellFormed(outcome) THEN Lookup(JsonLoads(outcome.text).v, "data").a ELSE <<>>

\* C19: in a deep run a failed result gets no extraction LLM call and
\* changes nothing; a successful one appends the item list of its reply to
\* all_items, nothing when the call raised or the reply is no object with a
\* "data" list; the run does not raise, and it returns {"data": all_items}.
C19_DeepConcatenates ==
    [][ran = {"deep"} =>
          /\ pc = "deep_iter" =>
                /\ all_items' = all_items /\ nExtract' = nExtract
                /\ pc' \in {"deep_iter", "deep_extract", "returned"}
                /\ pc' = "returned" =>
                      (HasDataList(ret') /\ Lookup(JsonLoads(ret').v, "data").a = all_items)
          /\ pc = "deep_extract" =>
                /\ pc' = "deep_iter"
                /\ nExtract' = nExtract + 1
                /\ all_items' = all_items \o ItemListOf(lastExtract')]_vars

\* two pages were crawled and extracted; the items of the first come first
C19_Witness ==
    /\ ran = {"deep"}
    /\ pc = "returned"
    /\ deepSeen = 2
    /\ nExtract = 2
    /\ all_items = <<ItemA, ItemA, ItemB>>
    /\ ret = DataText(JList(<<ItemA, ItemA, ItemB>>))

\* C20: the adaptive and the deep strategy take the same items from an
\* extraction reply: its "data" list when the reply is a JSON object with
\* such a list, and nothing from every other reply.
C20_SameReplies ==
    [][(pc = "ad_extract" \/ pc = "deep_extract") =>
          all_items' = all_items \o ItemListOf(lastExtract')]_vars

\* C21: for one API key every object that has selected a provider has
\* selected the same base URL and the same model.
C21_SameProvider ==
    \A c, d \in Classes :
        (provider[c] # NoProvider /\ provider[d] # NoProvider) => provider[c] = provider[d]

\* C22: when the app's run used the single-page strategy and its extraction
\* LLM call raised, the page shows neither the data table nor the success
\* message, and it shows the no-data warning or an error.
C22_FailedExtractionShowsNoItems ==
    (app = "done" /\ ran = {"simple"} /\ nExtract = 1 /\ ~lastExtract.ok)
        => /\ "table" \notin ui
           /\ "success" \notin ui
           /\ \/ "warning" \in ui
              \/ "json_error" \in ui
              \/ "critical_error" \in ui

\* C23: in an app run the status "Done!" is shown only when the run showed
\* no error: no JSON parse error, no critical error, and the engine did not
\* return the text of a failed crawl.
C23_DoneOnlyWithoutError ==
    "done" \in ui
        => /\ "json_error" \notin ui
           /\ "critical_error" \notin ui
           /\ ret # CrawlError(url)
====
